---- MODULE Spec2Model ----
(***************************************************************************)
(* Blaze Content Forge: the ContentForge generator                         *)
(* (backend/blaze_content_forge.py) and the Flask handlers in front of it  *)
(* (backend/app.py, server.py).                                            *)
(*                                                                         *)
(* A Python str is a sequence of tokens.  A token is either one code point *)
(* that is not printable ASCII (written "U+XXXX", the line feed "LF"), one *)
(* brace, or a run of ASCII text.  Caller-supplied topics are sequences of *)
(* single characters, so slicing and case mapping act on characters.       *)
(***************************************************************************)
EXTENDS FiniteSets, Integers, Sequences, TLC

VARIABLES brands, content_history, catalog, call, ret, responses, forge_calls, frames

vars == <<brands, content_history, catalog, call, ret, responses, forge_calls, frames>>

(***************************************************************************)
(* Bounds                                                                  *)
(***************************************************************************)
MaxTopicLen == 2
MaxNegSlides == 3
MaxNegDays == 1
MaxSlides == 9
MaxPillars == 2
MaxDays == 5
MaxSeed == 2
MaxToday == 0
MaxBank == 5
MaxTags == 16

(***************************************************************************)
(* Text                                                                    *)
(***************************************************************************)
CodePoints ==
    { "LF", "U+1F373", "U+1F389", "U+1F3E0", "U+1F446", "U+1F447", "U+1F468", "U+1F4A1", "U+1F4AA", "U+1F4C8", "U+1F4CC", "U+1F525", "U+1F5FA", "U+1F605", "U+1F631", "U+1F6AB", "U+1F9F5", "U+200D", "U+2192", "U+2615", "U+2705", "U+2728", "U+2753", "U+274C", "U+2764", "U+FE0F" }

CharLen(tok) == IF tok \in CodePoints THEN 1 ELSE Len(tok)

RECURSIVE StrLen(_)
StrLen(s) == IF s = <<>> THEN 0 ELSE CharLen(Head(s)) + StrLen(Tail(s))

\* s[:n] for n >= 0, cutting inside an ASCII run where the bound falls there
RECURSIVE Prefix(_, _)
Prefix(s, n) ==
    IF s = <<>> \/ n <= 0 THEN <<>>
    ELSE IF CharLen(Head(s)) <= n
         THEN <<Head(s)>> \o Prefix(Tail(s), n - CharLen(Head(s)))
         ELSE <<SubSeq(Head(s), 1, n)>>

TopicChars == {"a", "A", " ", "{", "}", "U+1F525"}

Topics == UNION {[1..n -> TopicChars] : n \in 0..MaxTopicLen}

IsCased(c) == c \in {"a", "A"}

LowerChar(c) == IF c = "A" THEN "a" ELSE c

UpperChar(c) == IF c = "a" THEN "A" ELSE c

str_lower(s) == [i \in DOMAIN s |-> LowerChar(s[i])]

str_upper(s) == [i \in DOMAIN s |-> UpperChar(s[i])]

\* str.title(): a cased character is upper-cased unless it follows a cased one
str_title(s) ==
    [i \in DOMAIN s |->
        IF i > 1 /\ IsCased(s[i - 1]) THEN LowerChar(s[i]) ELSE UpperChar(s[i])]

RemoveSpaces(s) == SelectSeq(s, LAMBDA c : c # " ")

Contains(s, c) == \E i \in DOMAIN s : s[i] = c

(***************************************************************************)
(* Outcome of a call: a returned value or a raised exception               *)
(***************************************************************************)
Return(v) == [status |-> "returned", value |-> v]

Raise(type, msg) == [status |-> "raised", error |-> [type |-> type, msg |-> msg]]

Pending == [status |-> "pending"]

NoneType == [cls |-> "NoneType"]

(***************************************************************************)
(* Template catalog                                                        *)
(***************************************************************************)
HOOKS ==
    [ ecommerce |-> <<
        <<"Stop scrolling if you want to ", "{", "benefit", "}", " ", "U+1F525">>,
        <<"The ", "{", "product", "}", " that changed everything for me...">>,
        <<"POV: You finally found ", "{", "solution", "}">>,
        <<"3 ", "{", "things", "}", " I wish I knew before ", "{", "action", "}">>,
        <<"Unpopular opinion: ", "{", "opinion", "}", " ", "U+1F447">>,
        <<"Save this if you're struggling with ", "{", "problem", "}">>,
        <<"This ", "{", "product", "}", " went viral for a reason...">>,
        <<"The truth about ", "{", "topic", "}", " nobody talks about">>,
        <<"Wait for the transformation... ", "U+1F631">>,
        <<"Which one are you choosing? ", "{", "options", "}">> >>,
      saas |-> <<
        <<"The ", "{", "tool", "}", " that saved me ", "{", "time", "}", " every week">>,
        <<"Stop doing ", "{", "task", "}", " manually (do this instead)">>,
        <<"If you're not using ", "{", "tool", "}", ", you're working too hard">>,
        <<"This automation changed my business forever">>,
        <<"The $0 ", "U+2192", " $", "{", "amount", "}", " journey (thread) ", "U+1F9F5">>,
        <<"Bookmark this for your next ", "{", "project", "}">>,
        <<"Free tools that work better than paid ones:">>,
        <<"The workflow that 10x'd my productivity">> >>,
      fitness |-> <<
        <<"The only ", "{", "exercise", "}", " you need for ", "{", "goal", "}">>,
        <<"3 months ago vs now ", "U+1F4AA">>,
        <<"Stop making these ", "{", "number", "}", " mistakes...">>,
        <<"Your ", "{", "body_part", "}", " will thank you for this">>,
        <<"The ", "{", "number", "}", " minute workout that actually works">>,
        <<"Transformation Tuesday hits different when...">>,
        <<"This changed my relationship with ", "{", "topic", "}">> >>,
      food |-> <<
        <<"The ", "{", "number", "}", " ingredient ", "{", "dish", "}", " everyone needs">>,
        <<"POV: You finally mastered ", "{", "recipe", "}">>,
        <<"Stop ordering takeout and make this instead ", "U+1F468", "U+200D", "U+1F373">>,
        <<"This ", "{", "dish", "}", " recipe broke the internet...">>,
        <<"Meal prep Sunday just got easier">>,
        <<"The secret ingredient you never knew you needed">>,
        <<"Restaurant-quality ", "{", "dish", "}", " at home ", "U+1F3E0">> >>,
      fashion |-> <<
        <<"The ", "{", "item", "}", " that goes with EVERYTHING">>,
        <<"How to style ", "{", "item", "}", " ", "{", "number", "}", " ways">>,
        <<"This outfit cost less than your coffee ", "U+2615">>,
        <<"The trend I'm taking into ", "{", "season", "}">>,
        <<"Capsule wardrobe essentials you actually need">>,
        <<"From desk to dinner in one outfit ", "U+2728">>,
        <<"The color combination nobody saw coming">> >>,
      general |-> <<
        <<"The ", "{", "number", "}", " things I learned from ", "{", "experience", "}">>,
        <<"Unpopular opinion that might help you: ", "U+1F447">>,
        <<"If you're reading this, it's a sign to ", "{", "action", "}">>,
        <<"The ", "{", "topic", "}", " guide I wish I had sooner">>,
        <<"Stop scrolling and ", "{", "action", "}", " ", "U+1F525">>,
        <<"This mindset shift changed everything">>,
        <<"Bookmark this for when you need it ", "U+1F4CC">> >> ]

CAROUSEL_TEMPLATES ==
    [ tips |-> [ structure |-> << "hook", "intro", "tip_1", "tip_2", "tip_3", "bonus", "cta" >>,
        titles |-> << <<"{", "number", "}", " ", "{", "topic", "}", " Tips That Actually Work">>,
                      <<"Save These ", "{", "topic", "}", " Hacks ", "U+1F4CC">>,
                      <<"The ", "{", "topic", "}", " Guide You Need">> >> ],
      mistakes |-> [ structure |-> << "hook", "intro", "mistake_1", "mistake_2", "mistake_3", "solution", "cta" >>,
        titles |-> << <<"Stop Making These ", "{", "topic", "}", " Mistakes ", "U+1F6AB">>,
                      <<"{", "number", "}", " Things Ruining Your ", "{", "topic", "}">>,
                      <<"Mistakes Costing You ", "{", "cost", "}">> >> ],
      steps |-> [ structure |-> << "hook", "intro", "step_1", "step_2", "step_3", "step_4", "result", "cta" >>,
        titles |-> << <<"How to ", "{", "goal", "}", " in ", "{", "number", "}", " Steps">>,
                      <<"The ", "{", "topic", "}", " Blueprint ", "U+1F5FA", "U+FE0F">>,
                      <<"From ", "{", "start", "}", " to ", "{", "end", "}", " (Step-by-Step)">> >> ],
      mistakes_to_success |-> [ structure |-> << "hook", "pain_point", "mistake_1", "mistake_2", "solution", "results", "cta" >>,
        titles |-> << <<"How I Fixed My ", "{", "problem", "}">>,
                      <<"I Was ", "{", "action", "}", " Wrong for Years ", "U+1F605">>,
                      <<"The ", "{", "topic", "}", " Glow-Up Strategy">> >> ] ]

CTAS ==
    << <<"Save this for later ", "U+1F4CC">>,
       <<"Drop a ", "U+1F525", " if you agree">>,
       <<"Which one will you try first? ", "U+1F447">>,
       <<"Share this with someone who needs to see it">>,
       <<"Comment '", "{", "keyword", "}", "' for the full guide">>,
       <<"Link in bio for more ", "U+1F446">>,
       <<"Follow for daily ", "{", "topic", "}", " tips">>,
       <<"Tag someone who's struggling with ", "{", "problem", "}">>,
       <<"Double tap if this helped you ", "U+2764", "U+FE0F">>,
       <<"What's your biggest ", "{", "topic", "}", " challenge? Tell me below ", "U+1F447">> >>

HASHTAGS ==
    [ ecommerce |-> << <<"#", "ecommerce">>, <<"#", "shopify">>, <<"#", "onlineshop">>, <<"#", "smallbusiness">>, <<"#", "entrepreneur">>, <<"#", "digitalmarketing">>, <<"#", "onlinestore">>, <<"#", "dropshipping">>, <<"#", "ecommercebusiness">>, <<"#", "marketing">> >>,
      saas |-> << <<"#", "saas">>, <<"#", "startup">>, <<"#", "tech">>, <<"#", "software">>, <<"#", "b2b">>, <<"#", "growthhacking">>, <<"#", "productivity">>, <<"#", "automation">>, <<"#", "businesstools">>, <<"#", "entrepreneurship">> >>,
      fitness |-> << <<"#", "fitness">>, <<"#", "workout">>, <<"#", "health">>, <<"#", "gym">>, <<"#", "wellness">>, <<"#", "fitnessmotivation">>, <<"#", "healthylifestyle">>, <<"#", "training">>, <<"#", "fitnessjourney">>, <<"#", "strong">> >>,
      food |-> << <<"#", "foodie">>, <<"#", "foodblogger">>, <<"#", "recipe">>, <<"#", "homemade">>, <<"#", "cooking">>, <<"#", "foodphotography">>, <<"#", "instafood">>, <<"#", "healthyfood">>, <<"#", "foodstagram">>, <<"#", "yummy">> >>,
      fashion |-> << <<"#", "fashion">>, <<"#", "style">>, <<"#", "ootd">>, <<"#", "outfit">>, <<"#", "fashionblogger">>, <<"#", "streetstyle">>, <<"#", "instafashion">>, <<"#", "fashionista">>, <<"#", "styleinspo">>, <<"#", "lookbook">> >>,
      marketing |-> << <<"#", "marketing">>, <<"#", "digitalmarketing">>, <<"#", "socialmedia">>, <<"#", "branding">>, <<"#", "contentmarketing">>, <<"#", "marketingtips">>, <<"#", "growth">>, <<"#", "socialmediamarketing">>, <<"#", "marketingstrategy">>, <<"#", "seo">> >>,
      general |-> << <<"#", "instagood">>, <<"#", "photooftheday">>, <<"#", "love">>, <<"#", "instadaily">>, <<"#", "follow">>, <<"#", "like">>, <<"#", "picoftheday">>, <<"#", "beautiful">>, <<"#", "happy">>, <<"#", "life">> >> ]

\* the class attributes of ContentForge as the class statement leaves them
Catalog ==
    [ HOOKS |-> HOOKS, CAROUSEL_TEMPLATES |-> CAROUSEL_TEMPLATES,
      CTAS |-> CTAS, HASHTAGS |-> HASHTAGS ]

PALETTES ==
    << <<"#FF6B6B", "#4ECDC4", "#45B7D1", "#96CEB4", "#FFEAA7">>,
       <<"#6C5CE7", "#A29BFE", "#74B9FF", "#0984E3", "#00B894">>,
       <<"#FD79A8", "#FDCB6E", "#6C5CE7", "#00B894", "#E17055">>,
       <<"#2D3436", "#636E72", "#B2BEC3", "#DFE6E9", "#00B894">>,
       <<"#E74C3C", "#E67E22", "#F1C40F", "#27AE60", "#2980B9">> >>

times ==
    [ professionals |-> "Tuesday/Thursday 12:00 PM or 5:00 PM",
      entrepreneurs |-> "Monday/Wednesday 8:00 AM or 6:00 PM",
      students |-> "Weekdays 7:00 PM - 9:00 PM",
      parents |-> "Weekdays 10:00 AM or 8:00 PM",
      general |-> "Tuesday-Thursday 11:00 AM - 1:00 PM" ]

EMPHASIS == {"U+1F525", "U+1F4A1", "U+1F631", "U+1F447"}

NUMBERS == << <<"3">>, <<"5">>, <<"7">>, <<"10">> >>

CALENDAR_TEMPLATE_TYPES == <<"tips", "mistakes", "steps">>

WEEKDAYS ==
    <<"Monday", "Tuesday", "Wednesday", "Thursday", "Friday", "Saturday", "Sunday">>

(***************************************************************************)
(* The random module.  random.choice(seq) returns seq[d] for a draw d in   *)
(* 0..len(seq)-1; random.sample(pop, k) makes k draws, the i-th below      *)
(* len(pop)-i, and moves the last pool element into the drawn position.    *)
(* A helper takes its draws as arguments; an operation of the generator    *)
(* derives the draws of one call from the state of the generator at the    *)
(* time of the call, which is an input (a seed).                           *)
(***************************************************************************)
Seeds == 0..MaxSeed

Rand(seed, k, n) == (seed * (k + 1) + k) % n

ChoiceDraws(seq) == 0..(Len(seq) - 1)

random_choice(seq, d) == seq[d + 1]

SampleDraws(n, k) == {js \in [1..k -> 0..(n - 1)] : \A i \in 1..k : js[i] <= n - i}

RECURSIVE SamplePool(_, _)
SamplePool(pool, js) ==
    IF js = <<>> THEN <<>>
    ELSE LET n == Len(pool)
             j == Head(js) + 1
             rest == [i \in 1..(n - 1) |-> IF i = j THEN pool[n] ELSE pool[i]]
         IN  <<pool[j]>> \o SamplePool(rest, Tail(js))

random_sample(population, k, js) ==
    IF k > Len(population) \/ k < 0
    THEN Raise("ValueError", "Sample larger than population or is negative")
    ELSE Return(SamplePool(population, js))

Range(seq) == {seq[i] : i \in DOMAIN seq}

Min(a, b) == IF a < b THEN a ELSE b

Max(a, b) == IF a > b THEN a ELSE b

\* seq[:n] of a list, with Python's meaning of a negative bound
ListPrefix(seq, n) ==
    IF n >= 0 THEN SubSeq(seq, 1, Min(n, Len(seq)))
    ELSE SubSeq(seq, 1, Max(Len(seq) + n, 0))

(***************************************************************************)
(* str.format with keyword arguments, and the brace-stripping fallback     *)
(***************************************************************************)
Fields(template) ==
    {template[i + 1] : i \in {j \in 1..(Len(template) - 1) : template[j] = "{"}}

RECURSIVE Substitute(_, _)
Substitute(template, variables) ==
    IF template = <<>> THEN <<>>
    ELSE IF Head(template) = "{"
         THEN variables[template[2]]
                  \o Substitute(SubSeq(template, 4, Len(template)), variables)
         ELSE <<Head(template)>> \o Substitute(Tail(template), variables)

str_format(template, variables) ==
    IF Fields(template) \subseteq DOMAIN variables
    THEN Return(Substitute(template, variables))
    ELSE Raise("KeyError", CHOOSE f \in Fields(template) : f \notin DOMAIN variables)

\* StripBraces with the second replace (of '}') left out
StripBraces_open_only(template) == SelectSeq(template, LAMBDA c : c # "{")

StripBraces(template) == SelectSeq(template, LAMBDA c : c \notin {"{", "}"})

\* s.replace('{name}', value)
RECURSIVE ReplaceField(_, _, _)
ReplaceField(s, name, value) ==
    IF s = <<>> THEN <<>>
    ELSE IF Len(s) >= 3 /\ s[1] = "{" /\ s[2] = name /\ s[3] = "}"
         THEN value \o ReplaceField(SubSeq(s, 4, Len(s)), name, value)
         ELSE <<Head(s)>> \o ReplaceField(Tail(s), name, value)

RECURSIVE Join(_, _)
Join(sep, parts) ==
    IF parts = <<>> THEN <<>>
    ELSE IF Len(parts) = 1 THEN Head(parts)
         ELSE Head(parts) \o <<sep>> \o Join(sep, Tail(parts))

(***************************************************************************)
(* ContentForge helpers                                                    *)
(***************************************************************************)
\* the dict literal names 'action' twice; the later entry is the one kept
hook_variables(topic) ==
    [ benefit |-> topic \o <<" faster">>,
      product |-> topic,
      solution |-> <<"the perfect ">> \o topic \o <<" strategy">>,
      things |-> <<"secrets">>,
      opinion |-> topic \o <<" is overrated">>,
      problem |-> topic \o <<" struggles">>,
      topic |-> topic,
      time |-> <<"10+ hours">>,
      amount |-> <<"10K">>,
      project |-> topic,
      exercise |-> topic,
      goal |-> <<"better ">> \o topic,
      number |-> <<"5">>,
      body_part |-> <<"body">>,
      dish |-> topic,
      recipe |-> topic,
      item |-> topic,
      season |-> <<"next year">>,
      experience |-> topic,
      start |-> <<"zero">>,
      end |-> <<"hero">>,
      cost |-> <<"money">>,
      action |-> <<"doing this">>,
      options |-> <<"1, 2, or 3?">> ]

industry_hooks(industry) ==
    IF industry \in DOMAIN catalog.HOOKS THEN catalog.HOOKS[industry]
    ELSE catalog.HOOKS["general"]

_generate_hook(industry, topic, d) ==
    LET hook_template == random_choice(industry_hooks(industry), d)
        filled == str_format(hook_template, hook_variables(topic))
    IN  IF filled.status = "raised" THEN StripBraces(hook_template)
        ELSE filled.value

fill_variables(topic, dn) ==
    [ number |-> random_choice(NUMBERS, dn),
      topic |-> str_title(topic),
      goal |-> <<"Master ">> \o topic,
      start |-> <<"Beginner">>,
      end |-> <<"Pro">>,
      problem |-> topic \o <<" issues">>,
      action |-> topic,
      cost |-> <<"thousands">> ]

_fill_template(template, topic, dn) ==
    LET filled == str_format(template, fill_variables(topic, dn))
    IN  IF filled.status = "raised" THEN StripBraces(template)
        ELSE filled.value

slide_content(topic) ==
    [ hook |-> [type |-> "hook", text |-> <<"The ">> \o topic \o <<" secrets", "LF", "everyone needs ", "U+1F525">>, style |-> "bold"],
      intro |-> [type |-> "text", text |-> <<"Here are the ">> \o topic \o <<"LF", "strategies that", "LF", "actually work ", "U+1F447">>, style |-> "normal"],
      tip_1 |-> [type |-> "tip", number |-> 1, title |-> <<"Start with research">>, text |-> <<"Understand your ">> \o topic \o <<" before taking action">>],
      tip_2 |-> [type |-> "tip", number |-> 2, title |-> <<"Create systems">>, text |-> <<"Build repeatable ">> \o topic \o <<" processes">>],
      tip_3 |-> [type |-> "tip", number |-> 3, title |-> <<"Measure results">>, text |-> <<"Track what works in ">> \o topic],
      tip_4 |-> [type |-> "tip", number |-> 4, title |-> <<"Scale winners">>, text |-> <<"Double down on ">> \o topic \o <<" successes">>],
      bonus |-> [type |-> "bonus", title |-> <<"U+1F4A1", " Pro Tip">>, text |-> <<"The best ">> \o topic \o <<" pros do this daily">>],
      cta |-> [type |-> "cta", text |-> <<"Follow for more", "LF">> \o topic \o <<" tips ", "U+1F525">>, style |-> "cta"],
      mistake_1 |-> [type |-> "warning", number |-> 1, title |-> <<"U+274C", " Random guessing">>, text |-> <<"Never approach ">> \o topic \o <<" without a plan">>],
      mistake_2 |-> [type |-> "warning", number |-> 2, title |-> <<"U+274C", " Ignoring data">>, text |-> topic \o <<" without metrics is just guessing">>],
      mistake_3 |-> [type |-> "warning", number |-> 3, title |-> <<"U+274C", " Giving up early">>, text |-> topic \o <<" takes time - be patient">>],
      solution |-> [type |-> "solution", title |-> <<"U+2705", " The Fix">>, text |-> <<"Use this proven ">> \o topic \o <<" framework instead">>],
      step_1 |-> [type |-> "step", number |-> 1, title |-> <<"Research Phase">>, text |-> <<"Analyze your ">> \o topic \o <<" situation thoroughly">>],
      step_2 |-> [type |-> "step", number |-> 2, title |-> <<"Strategy Phase">>, text |-> <<"Create your ">> \o topic \o <<" action plan">>],
      step_3 |-> [type |-> "step", number |-> 3, title |-> <<"Execution Phase">>, text |-> <<"Implement your ">> \o topic \o <<" strategy daily">>],
      step_4 |-> [type |-> "step", number |-> 4, title |-> <<"Optimization">>, text |-> <<"Refine your ">> \o topic \o <<" approach weekly">>],
      result |-> [type |-> "result", title |-> <<"U+1F389", " Results">>, text |-> <<"Consistent ">> \o topic \o <<" growth within 90 days">>],
      pain_point |-> [type |-> "pain", title |-> <<"Struggling with ">> \o topic \o <<"?">>, text |-> <<"You're not alone - here's why...">>],
      results |-> [type |-> "result", title |-> <<"The Results ", "U+1F4C8">>, text |-> topic \o <<" transformation in just 30 days">>] ]

RECURSIVE MapSlots(_, _)
MapSlots(structure, table) ==
    IF structure = <<>> THEN <<>>
    ELSE IF Head(structure) \in DOMAIN table
         THEN <<table[Head(structure)]>> \o MapSlots(Tail(structure), table)
         ELSE MapSlots(Tail(structure), table)

\* _generate_slides that cuts the structure one slot early
_generate_slides_one_short(template, topic, num_slides, voice) ==
    LET structure == ListPrefix(template.structure, num_slides - 1)
    IN  MapSlots(structure, slide_content(topic))

_generate_slides(template, topic, num_slides, voice) ==
    LET structure == ListPrefix(template.structure, num_slides)
    IN  MapSlots(structure, slide_content(topic))

intros(topic) ==
    << <<"Let's talk about ">> \o topic \o <<"... ", "U+1F447">>,
       <<"Here's what nobody tells you about ">> \o topic \o <<":">>,
       <<"The ">> \o topic \o <<" game just changed ", "U+1F525">>,
       <<"Real talk about ">> \o topic \o <<":">> >>

value_props(brand, topic) ==
    << <<"These ">> \o topic \o <<" strategies have worked for 100+ ",
                                   brand.target_audience, ".">>,
       <<"I spent years figuring out ">> \o topic \o <<" so you don't have to.">>,
       <<"This is the exact ">> \o topic \o <<" system we use.">>,
       <<"Stop overcomplicating ">> \o topic \o <<". Start here ", "U+1F447">> >>

_generate_caption(brand, topic, hook, di, dv) ==
    LET intro == random_choice(intros(topic), di)
        value == random_choice(value_props(brand, topic), dv)
        caption_parts ==
            << hook, <<>>, intro, <<>>, value, <<>>,
               <<"Save this post and come back to it when you need it ", "U+1F4CC">>,
               <<>>,
               <<"Follow @", brand.name, " for daily ">> \o topic \o <<" tips!">> >>
    IN  Join("LF", caption_parts)

industry_tags(industry) ==
    IF industry \in DOMAIN catalog.HASHTAGS THEN catalog.HASHTAGS[industry]
    ELSE catalog.HASHTAGS["general"]

\* topic_tags with the '#' prefix left out
topic_tags_bare(topic) ==
    LET base == RemoveSpaces(str_lower(topic))
    IN  <<base, base \o <<"tips">>, base \o <<"strategy">>>>

topic_tags(topic) ==
    LET base == <<"#">> \o RemoveSpaces(str_lower(topic))
    IN  <<base, base \o <<"tips">>, base \o <<"strategy">>>>

\* _generate_hashtags that asks for three industry tags whatever the bank holds
_generate_hashtags_three(industry, topic, js1, js2) ==
    LET bank == industry_tags(industry)
        first == random_sample(ListPrefix(bank, 5), 3, js1)
        second == random_sample(ListPrefix(catalog.HASHTAGS["general"], 5), 2, js2)
    IN  IF first.status = "raised" THEN first
        ELSE IF second.status = "raised" THEN second
        ELSE Return(Range(first.value) \cup Range(topic_tags(topic))
                        \cup Range(second.value))

\* the returned list is list(set(selected)): the distinct tags, in no fixed order
_generate_hashtags(industry, topic, js1, js2) ==
    LET bank == industry_tags(industry)
        first == random_sample(ListPrefix(bank, 5), Min(3, Len(bank)), js1)
        second == random_sample(ListPrefix(catalog.HASHTAGS["general"], 5), 2, js2)
    IN  IF first.status = "raised" THEN first
        ELSE IF second.status = "raised" THEN second
        ELSE Return(Range(first.value) \cup Range(topic_tags(topic))
                        \cup Range(second.value))

_select_cta(topic, d) ==
    LET cta == random_choice(catalog.CTAS, d)
        r1 == ReplaceField(cta, "topic", topic)
        r2 == ReplaceField(r1, "keyword", str_upper(Prefix(topic, 5)))
    IN  ReplaceField(r2, "problem", topic \o <<" struggles">>)

\* the slide bonus granted once per slide and the final clamp left out
_calculate_engagement_score_unclamped(hook, slides, hashtags) ==
    LET base == 50
        s1 == IF \E c \in EMPHASIS : Contains(hook, c) THEN base + 10 ELSE base
        s2 == IF StrLen(hook) < 60 THEN s1 + 5 ELSE s1
        s3 == IF 5 <= Len(slides) /\ Len(slides) <= 10
              THEN s2 + 15 * Len(slides) ELSE s2
    IN  IF 8 <= Cardinality(hashtags) /\ Cardinality(hashtags) <= 15
        THEN s3 + 10 ELSE s3

\* the short-hook bonus granted up to and including 60 characters
_calculate_engagement_score_inclusive(hook, slides, hashtags) ==
    LET base == 50
        s1 == IF \E c \in EMPHASIS : Contains(hook, c) THEN base + 10 ELSE base
        s2 == IF StrLen(hook) <= 60 THEN s1 + 5 ELSE s1
        s3 == IF 5 <= Len(slides) /\ Len(slides) <= 10 THEN s2 + 15 ELSE s2
        s4 == IF 8 <= Cardinality(hashtags) /\ Cardinality(hashtags) <= 15
              THEN s3 + 10 ELSE s3
    IN  Min(100, Max(0, s4))

_calculate_engagement_score(hook, slides, hashtags) ==
    LET base == 50
        s1 == IF \E c \in EMPHASIS : Contains(hook, c) THEN base + 10 ELSE base
        s2 == IF StrLen(hook) < 60 THEN s1 + 5 ELSE s1
        s3 == IF 5 <= Len(slides) /\ Len(slides) <= 10 THEN s2 + 15 ELSE s2
        s4 == IF 8 <= Cardinality(hashtags) /\ Cardinality(hashtags) <= 15
              THEN s3 + 10 ELSE s3
    IN  Min(100, Max(0, s4))

\* _optimal_posting_time with the first window of the table as the default
_optimal_posting_time_first(target_audience) ==
    IF target_audience \in DOMAIN times THEN times[target_audience]
    ELSE times["professionals"]

_optimal_posting_time(target_audience) ==
    IF target_audience \in DOMAIN times THEN times[target_audience]
    ELSE times["general"]

_generate_colors(d) == random_choice(PALETTES, d)

(***************************************************************************)
(* Objects                                                                 *)
(***************************************************************************)
PyStr(s) == [cls |-> "str", v |-> s]

BrandProfile(name, industry, voice, target_audience, color_scheme, content_pillars, posting_frequency) ==
    [ cls |-> "BrandProfile", name |-> name, industry |-> industry,
      voice |-> voice, target_audience |-> target_audience,
      color_scheme |-> color_scheme, content_pillars |-> content_pillars,
      posting_frequency |-> posting_frequency ]

ContentPiece(content_type, title, slides, caption, hashtags, hook, cta, engagement_score, best_posting_time, brand_voice) ==
    [ content_type |-> content_type, title |-> title, slides |-> slides,
      caption |-> caption, hashtags |-> hashtags, hook |-> hook, cta |-> cta,
      engagement_score |-> engagement_score,
      best_posting_time |-> best_posting_time, brand_voice |-> brand_voice ]

\* a dataclass that defines __eq__ and is not frozen has no __hash__
HashableClasses == {"str", "int", "NoneType"}

\* dict.get(key): hashes the key, then returns the entry or None
dict_get(d, key) ==
    IF key.cls \notin HashableClasses
    THEN Raise("TypeError", "unhashable type: '" \o key.cls \o "'")
    ELSE Return(IF key.cls = "str" /\ key.v \in DOMAIN d THEN d[key.v]
                ELSE NoneType)

\* 'if not brand'
Falsy(obj) == obj.cls = "NoneType"

(***************************************************************************)
(* ContentForge operations.  rng = [seed, k]: the state of the random      *)
(* generator at the call and the number of draws the call has made so far. *)
(***************************************************************************)
Draw(rng, i, n) == Rand(rng.seed, rng.k + i, n)

SampleDrawsAt(rng, i, population, k) ==
    IF k > Len(population) \/ k < 0 THEN <<>>
    ELSE [j \in 1..k |-> Draw(rng, i + j - 1, Len(population) - j + 1)]

HashtagsAt(industry, topic, rng, i) ==
    LET bank == industry_tags(industry)
    IN  _generate_hashtags(industry, topic,
            SampleDrawsAt(rng, i, ListPrefix(bank, 5), Min(3, Len(bank))),
            SampleDrawsAt(rng, i + 3, ListPrefix(catalog.HASHTAGS["general"], 5), 2))

\* self.brands[name] = brand that keeps the pillars of a profile already there
brands_setitem_merge(self_brands, name, brand) ==
    [n \in DOMAIN self_brands \cup {name} |->
        IF n # name THEN self_brands[n]
        ELSE IF name \in DOMAIN self_brands
             THEN [brand EXCEPT !.content_pillars = self_brands[name].content_pillars]
             ELSE brand]

\* self.brands[name] = brand
brands_setitem(self_brands, name, brand) ==
    [n \in DOMAIN self_brands \cup {name} |->
        IF n = name THEN brand ELSE self_brands[n]]

\* create_brand that files an industry without a hook list under "general"
create_brand_known_industry(name, industry, voice, target_audience, content_pillars, posting_frequency, rng) ==
    BrandProfile(name,
                 IF industry \in DOMAIN catalog.HOOKS THEN industry ELSE "general",
                 voice, target_audience,
                 _generate_colors(Draw(rng, 0, Len(PALETTES))),
                 content_pillars, posting_frequency)

\* the profile built by create_brand, before it is stored
create_brand(name, industry, voice, target_audience, content_pillars, posting_frequency, rng) ==
    BrandProfile(name, industry, voice, target_audience,
                 _generate_colors(Draw(rng, 0, Len(PALETTES))),
                 content_pillars, posting_frequency)

generate_carousel(self_brands, brand_name, topic, template_type, num_slides, rng) ==
    LET found == dict_get(self_brands, brand_name)
    IN  IF found.status = "raised" THEN found
        ELSE IF Falsy(found.value)
        THEN Raise("ValueError",
                   "Brand '" \o brand_name.v \o "' not found. Create it first.")
        ELSE
        LET brand == found.value
            template == IF template_type \in DOMAIN catalog.CAROUSEL_TEMPLATES
                        THEN catalog.CAROUSEL_TEMPLATES[template_type]
                        ELSE catalog.CAROUSEL_TEMPLATES["tips"]
            hook == _generate_hook(brand.industry, topic,
                        Draw(rng, 0, Len(industry_hooks(brand.industry))))
            slides == _generate_slides(template, topic, num_slides, brand.voice)
            caption == _generate_caption(brand, topic, hook,
                           Draw(rng, 1, Len(intros(topic))),
                           Draw(rng, 2, Len(value_props(brand, topic))))
            hashtags == HashtagsAt(brand.industry, topic, rng, 3)
            cta == _select_cta(topic, Draw(rng, 8, Len(catalog.CTAS)))
            best_time == _optimal_posting_time(brand.target_audience)
            title_template == random_choice(template.titles,
                                  Draw(rng, 9, Len(template.titles)))
            title == _fill_template(title_template, topic, Draw(rng, 10, Len(NUMBERS)))
        IN  IF hashtags.status = "raised" THEN hashtags
            ELSE Return(ContentPiece("carousel", title, slides, caption,
                     hashtags.value, hook, cta,
                     _calculate_engagement_score(hook, slides, hashtags.value),
                     best_time, brand.voice))

CarouselDraws == 11

\* the range bound with the factor 2 left out
calendar_range_single(days, content_pillars) == Min(days, Len(content_pillars))

\* range(min(days, len(brand.content_pillars) * 2))
calendar_range(days, content_pillars) == Min(days, Len(content_pillars) * 2)

\* calendar.append({...}) for the carousel of one day
day_record(content, pillar, i, today) ==
    IF content.status = "raised" THEN content
    ELSE Return([ date |-> today + i,
                  day |-> WEEKDAYS[((today + i) % 7) + 1],
                  content_type |-> content.value.content_type,
                  title |-> content.value.title,
                  topic |-> pillar,
                  engagement_score |-> content.value.engagement_score,
                  best_time |-> content.value.best_posting_time,
                  caption_preview |->
                      Prefix(content.value.caption, 100) \o <<"...">>,
                  hashtags |-> content.value.hashtags ])

\* the loop body that stays on the last pillar instead of starting over
calendar_day_clamped(self_brands, brand, brand_name, i, today, rng) ==
    LET pillar == brand.content_pillars[Min(i, Len(brand.content_pillars) - 1) + 1]
        template_type == random_choice(CALENDAR_TEMPLATE_TYPES,
                             Draw(rng, 0, Len(CALENDAR_TEMPLATE_TYPES)))
    IN  day_record(generate_carousel(self_brands, brand_name, pillar,
                       template_type, 7, [seed |-> rng.seed, k |-> rng.k + 1]),
                   pillar, i, today)

\* one pass of the loop body; brand is the profile found when the calendar
\* call started, self_brands the mapping at the time of this pass
calendar_day(self_brands, brand, brand_name, i, today, rng) ==
    LET pillar == brand.content_pillars[(i % Len(brand.content_pillars)) + 1]
        template_type == random_choice(CALENDAR_TEMPLATE_TYPES,
                             Draw(rng, 0, Len(CALENDAR_TEMPLATE_TYPES)))
    IN  day_record(generate_carousel(self_brands, brand_name, pillar,
                       template_type, 7, [seed |-> rng.seed, k |-> rng.k + 1]),
                   pillar, i, today)

RECURSIVE calendar_loop(_, _, _, _, _, _, _, _)
RECURSIVE calendar_append(_, _, _, _, _, _, _, _, _)
calendar_append(entry, self_brands, brand, brand_name, i, n, today, rng, calendar) ==
    IF entry.status = "raised" THEN entry
    ELSE calendar_loop(self_brands, brand, brand_name, i + 1, n, today, rng,
                       Append(calendar, entry.value))

calendar_loop(self_brands, brand, brand_name, i, n, today, rng, calendar) ==
    IF i >= n THEN Return(calendar)
    ELSE calendar_append(
             calendar_day(self_brands, brand, brand_name, i, today,
                 [seed |-> rng.seed, k |-> rng.k + i * (CarouselDraws + 1)]),
             self_brands, brand, brand_name, i, n, today, rng, calendar)

\* generate_content_calendar whose lookup failure yields an empty calendar
generate_content_calendar_lenient(self_brands, brand_name, days, today, rng) ==
    LET found == dict_get(self_brands, brand_name)
    IN  IF found.status = "raised" THEN found
        ELSE IF Falsy(found.value) THEN Return(<<>>)
        ELSE calendar_loop(self_brands, found.value, brand_name, 0,
                 calendar_range(days, found.value.content_pillars), today, rng, <<>>)

generate_content_calendar(self_brands, brand_name, days, today, rng) ==
    LET found == dict_get(self_brands, brand_name)
    IN  IF found.status = "raised" THEN found
        ELSE IF Falsy(found.value)
        THEN Raise("ValueError", "Brand '" \o brand_name.v \o "' not found")
        ELSE calendar_loop(self_brands, found.value, brand_name, 0,
                 calendar_range(days, found.value.content_pillars), today, rng, <<>>)

\* str.title() of a post type given as one word
WordTitle(w) ==
    CASE w = "educational" -> "Educational"
      [] w = "motivational" -> "Motivational"
      [] w = "promotional" -> "Promotional"
      [] w = "engagement" -> "Engagement"
      [] w = "story" -> "Story"
      [] OTHER -> w

captions(topic) ==
    [ educational |-> <<"Quick ">> \o topic \o
          <<" tip:", "LF", "LF", "U+1F4A1",
            " [Insert educational content here]", "LF", "LF",
            "Save this for later! ", "U+1F4CC">>,
      motivational |-> <<"Your daily reminder:", "LF", "LF", "U+1F525",
            " [Insert motivational message about ">> \o topic \o
          <<"]", "LF", "LF", "Tag someone who needs to hear this ", "U+1F447">>,
      promotional |-> <<"Introducing [Product/Service]", "LF", "LF", "U+2728",
            " The ">> \o topic \o
          <<" solution you've been waiting for", "LF", "LF",
            "Link in bio to learn more ", "U+1F446">>,
      engagement |-> <<"Question for you:", "LF", "LF", "U+2753",
            " [Insert engaging question about ">> \o topic \o
          <<"]", "LF", "LF", "Drop your answer below! ", "U+1F447">> ]

\* random.randint(a, b)
random_randint(a, b, rng, i) == a + Draw(rng, i, b - a + 1)

generate_single_post(self_brands, brand_name, topic, post_type, rng) ==
    LET found == dict_get(self_brands, brand_name)
    IN  IF found.status = "raised" THEN found
        ELSE IF Falsy(found.value)
        THEN Raise("ValueError", "Brand '" \o brand_name.v \o "' not found")
        ELSE
        LET brand == found.value
            hook == _generate_hook(brand.industry, topic,
                        Draw(rng, 0, Len(industry_hooks(brand.industry))))
            caption == IF post_type \in DOMAIN captions(topic)
                       THEN captions(topic)[post_type]
                       ELSE captions(topic)["educational"]
            hashtags == HashtagsAt(brand.industry, topic, rng, 1)
        IN  IF hashtags.status = "raised" THEN hashtags
            ELSE Return(ContentPiece("single",
                     str_title(topic) \o <<" ", WordTitle(post_type)>>,
                     <<[type |-> "single", style |-> post_type]>>,
                     caption, hashtags.value, hook,
                     _select_cta(topic, Draw(rng, 6, Len(catalog.CTAS))),
                     random_randint(60, 90, rng, 7),
                     _optimal_posting_time(brand.target_audience),
                     brand.voice))

(***************************************************************************)
(* State                                                                   *)
(***************************************************************************)
UnknownKey == "nope"

IndustryKeys == DOMAIN HOOKS \cup DOMAIN HASHTAGS \cup {UnknownKey}

TemplateTypes == DOMAIN CAROUSEL_TEMPLATES

\* no request is being served
NoFrames == [r \in {} |-> NoneType]

\* ContentForge.__init__
Init ==
    /\ brands = [n \in {} |-> NoneType]
    /\ content_history = <<>>
    /\ catalog = Catalog
    /\ frames = NoFrames
    /\ call = [op |-> "none"]
    /\ ret = Pending
    /\ responses = <<>>
    /\ forge_calls = <<>>

(***************************************************************************)
(* Callers of the generator: arguments are drawn from small sets           *)
(***************************************************************************)
BrandNames == {"acme"}

LookupNames == BrandNames \cup {"ghost"}

BrandArgs ==
    { [industry |-> "fitness", voice |-> "friendly", target_audience |-> "students"],
      [industry |-> UnknownKey, voice |-> "edgy", target_audience |-> "gen z"] }

OpTopics == { <<"A", " ">>, <<"{", "U+1F525">> }

PillarCycle(n) == [i \in 1..n |-> IF i % 2 = 1 THEN <<"A", " ">> ELSE <<"{", "U+1F525">>]

PillarLists == {PillarCycle(n) : n \in 0..MaxPillars}

TemplateArgs == {"steps", "mistakes_to_success", UnknownKey}

SlideArgs == {-1, 0, 7}

DayArgs == (-MaxNegDays)..MaxDays

PostTypes == {"educational", "engagement", "rant"}

CreateBrand ==
    \E name \in BrandNames, a \in BrandArgs, pillars \in PillarLists, seed \in Seeds :
        LET brand == create_brand(name, a.industry, a.voice, a.target_audience,
                                  pillars, 5, [seed |-> seed, k |-> 0])
        IN  /\ brands' = brands_setitem(brands, name, brand)
            /\ call' = [op |-> "create_brand", brand_name |-> PyStr(name)]
            /\ ret' = Return(brand)
            /\ UNCHANGED <<content_history, catalog, responses, forge_calls, frames>>

\* generate_carousel that files the piece it returns in self.content_history
GenerateCarousel_recording ==
    \E name \in LookupNames, topic \in OpTopics, template_type \in TemplateArgs,
       num_slides \in SlideArgs, seed \in Seeds :
        /\ call' = [op |-> "generate_carousel", brand_name |-> PyStr(name),
                    topic |-> topic, template_type |-> template_type,
                    num_slides |-> num_slides]
        /\ ret' = generate_carousel(brands, PyStr(name), topic, template_type,
                                    num_slides, [seed |-> seed, k |-> 0])
        /\ content_history' = IF ret'.status = "returned"
                              THEN Append(content_history, ret'.value)
                              ELSE content_history
        /\ UNCHANGED <<brands, catalog, responses, forge_calls, frames>>

GenerateCarousel ==
    \E name \in LookupNames, topic \in OpTopics, template_type \in TemplateArgs,
       num_slides \in SlideArgs, seed \in Seeds :
        /\ call' = [op |-> "generate_carousel", brand_name |-> PyStr(name),
                    topic |-> topic, template_type |-> template_type,
                    num_slides |-> num_slides]
        /\ ret' = generate_carousel(brands, PyStr(name), topic, template_type,
                                    num_slides, [seed |-> seed, k |-> 0])
        /\ UNCHANGED <<brands, content_history, catalog, responses, forge_calls, frames>>

GenerateSinglePost ==
    \E name \in LookupNames, topic \in OpTopics, post_type \in PostTypes,
       seed \in Seeds :
        /\ call' = [op |-> "generate_single_post", brand_name |-> PyStr(name),
                    topic |-> topic, post_type |-> post_type]
        /\ ret' = generate_single_post(brands, PyStr(name), topic, post_type,
                                       [seed |-> seed, k |-> 0])
        /\ UNCHANGED <<brands, content_history, catalog, responses, forge_calls, frames>>

GenerateContentCalendar ==
    \E name \in LookupNames, days \in DayArgs, today \in 0..MaxToday, seed \in Seeds :
        /\ call' = [op |-> "generate_content_calendar", brand_name |-> PyStr(name),
                    days |-> days, today |-> today]
        /\ ret' = generate_content_calendar(brands, PyStr(name), days, today,
                                            [seed |-> seed, k |-> 0])
        /\ UNCHANGED <<brands, content_history, catalog, responses, forge_calls, frames>>

Next ==
    \/ CreateBrand
    \/ GenerateCarousel
    \/ GenerateSinglePost
    \/ GenerateContentCalendar

Spec == Init /\ [][Next]_vars

(***************************************************************************)
(* Flask handlers (backend/app.py; server.py repeats them)                 *)
(***************************************************************************)
PyInt(n) == [cls |-> "int", n |-> n]

Absent == [cls |-> "absent"]

\* a JSON object holding the fields of f that are present
JsonObject(f) ==
    [kind |-> "object",
     fields |-> [k \in {x \in DOMAIN f : f[x] # Absent} |-> f[k]]]

NoBody == [kind |-> "none"]

JsonArray == [kind |-> "array"]

\* request.get_json(): the parsed body.  Without a JSON body the installed
\* Flask either raises an HTTP error or returns None, depending on its version.
request_get_json(body) ==
    CASE body.kind = "none" ->
            { Raise("UnsupportedMediaType",
                    "415 Unsupported Media Type: Did not attempt to load JSON data because the request Content-Type was not 'application/json'."),
              Return(NoneType) }
      [] body.kind = "array" -> { Return([cls |-> "list"]) }
      [] body.kind = "object" -> { Return([cls |-> "dict", fields |-> body.fields]) }

\* data.get(key, default)
data_get(data, key, default) ==
    IF data.cls # "dict"
    THEN Raise("AttributeError", "'" \o data.cls \o "' object has no attribute 'get'")
    ELSE Return(IF key \in DOMAIN data.fields THEN data.fields[key] ELSE default)

IntLiterals == {"0", "2", "5"}

IntOfLiteral(str) == CASE str = "0" -> 0 [] str = "2" -> 2 [] str = "5" -> 5

\* int(x)
py_int(x) ==
    CASE x.cls = "int" -> Return(x.n)
      [] x.cls = "str" ->
            IF x.v \in IntLiterals THEN Return(IntOfLiteral(x.v))
            ELSE Raise("ValueError",
                       "invalid literal for int() with base 10: '" \o x.v \o "'")
      [] OTHER ->
            Raise("TypeError",
                  "int() argument must be a string, a bytes-like object or a real number, not '"
                      \o x.cls \o "'")

\* int(data.get(key, default))
int_field(data, key, default) ==
    LET raw == data_get(data, key, PyInt(default))
    IN  IF raw.status = "raised" THEN raw ELSE py_int(raw.value)

\* the attributes of a ContentForge instance
ContentForgeAttributes ==
    { "HOOKS", "CAROUSEL_TEMPLATES", "CTAS", "HASHTAGS", "brands",
      "content_history", "create_brand", "_generate_colors", "generate_carousel",
      "_generate_hook", "_fill_template", "_generate_slides",
      "_generate_caption", "_generate_hashtags", "_select_cta",
      "_calculate_engagement_score", "_optimal_posting_time",
      "generate_content_calendar", "generate_single_post", "export_content",
      "analyze_performance" }

\* forge.<name>: the attribute lookup that precedes a call of a method
forge_getattr(name) ==
    IF name \notin ContentForgeAttributes
    THEN Raise("AttributeError",
               "'ContentForge' object has no attribute '" \o name \o "'")
    ELSE Return([cls |-> "method", name |-> name])

\* the body of the try block: its outcome and the forge attributes it used
Tried(outcome, calls) == [outcome |-> outcome, calls |-> calls]

carousel_try(self_brands, json, rng) ==
    IF json.status = "raised" THEN Tried(json, <<>>)
    ELSE
    LET data == json.value
        topic == data_get(data, "topic", PyStr("Marketing Tips"))
        industry == data_get(data, "industry", PyStr("ecommerce"))
        brand_voice == data_get(data, "brand_voice", PyStr("friendly"))
        num_slides == int_field(data, "num_slides", 7)
        template == data_get(data, "template", PyStr("tips"))
        content == forge_getattr("generate_carousel_post")
    IN  IF topic.status = "raised" THEN Tried(topic, <<>>)
        ELSE IF num_slides.status = "raised" THEN Tried(num_slides, <<>>)
        ELSE IF content.status = "raised"
        THEN Tried(content, <<"generate_carousel_post">>)
        ELSE Tried(Return([content |->
                 [ content_type |-> content.value.content_type,
                   title |-> content.value.title,
                   slides |-> content.value.slides,
                   caption |-> content.value.caption,
                   hashtags |-> content.value.hashtags,
                   hook |-> content.value.hook,
                   cta |-> content.value.cta,
                   engagement_score |-> content.value.engagement_score,
                   best_posting_time |-> content.value.best_posting_time,
                   brand_voice |-> content.value.brand_voice ]]),
                 <<"generate_carousel_post">>)

caption_try(self_brands, json, rng) ==
    IF json.status = "raised" THEN Tried(json, <<>>)
    ELSE
    LET data == json.value
        topic == data_get(data, "topic", PyStr(""))
        industry == data_get(data, "industry", PyStr("ecommerce"))
        caption == forge_getattr("generate_caption")
        hashtags == forge_getattr("generate_hashtags")
    IN  IF topic.status = "raised" THEN Tried(topic, <<>>)
        ELSE IF caption.status = "raised" THEN Tried(caption, <<"generate_caption">>)
        ELSE IF hashtags.status = "raised"
        THEN Tried(hashtags, <<"generate_caption", "generate_hashtags">>)
        ELSE Tried(Return([caption |-> caption.value, hashtags |-> hashtags.value]),
                   <<"generate_caption", "generate_hashtags">>)

RECURSIVE hashtag_sets_loop(_, _, _, _, _, _, _)
hashtag_sets_loop(self_brands, topic, industry, i, num_sets, hashtag_sets, rng) ==
    IF i >= num_sets
    THEN Tried(Return([hashtag_sets |-> hashtag_sets]),
               [j \in 1..Len(hashtag_sets) |-> "generate_hashtags"])
    ELSE LET tags == forge_getattr("generate_hashtags")
         IN  IF tags.status = "raised"
             THEN Tried(tags, [j \in 1..(Len(hashtag_sets) + 1) |-> "generate_hashtags"])
             ELSE hashtag_sets_loop(self_brands, topic, industry, i + 1, num_sets,
                      Append(hashtag_sets,
                             [ set_number |-> i + 1, hashtags |-> tags.value,
                               count |-> Cardinality(tags.value) ]), rng)

hashtags_try(self_brands, json, rng) ==
    IF json.status = "raised" THEN Tried(json, <<>>)
    ELSE
    LET data == json.value
        topic == data_get(data, "topic", PyStr(""))
        industry == data_get(data, "industry", PyStr("ecommerce"))
        num_sets == int_field(data, "num_sets", 3)
    IN  IF topic.status = "raised" THEN Tried(topic, <<>>)
        ELSE IF num_sets.status = "raised" THEN Tried(num_sets, <<>>)
        ELSE hashtag_sets_loop(self_brands, topic.value, industry.value, 0,
                               num_sets.value, <<>>, rng)

calendar_tried(calendar) ==
    IF calendar.status = "raised"
    THEN Tried(calendar, <<"generate_content_calendar">>)
    ELSE Tried(Return([calendar |-> calendar.value]), <<"generate_content_calendar">>)

calendar_try(self_brands, json, rng) ==
    IF json.status = "raised" THEN Tried(json, <<>>)
    ELSE
    LET data == json.value
        brand_name == data_get(data, "brand_name", PyStr("Brand"))
        industry == data_get(data, "industry", PyStr("ecommerce"))
        weeks == int_field(data, "weeks", 2)
        posts_per_week == int_field(data, "posts_per_week", 3)
        brand == BrandProfile(brand_name.value, industry.value, "friendly",
                     "General audience", <<"#000000", "#FFFFFF">>,
                     << <<"tips">>, <<"products">>, <<"stories">>,
                        <<"behind_scenes">> >>,
                     posts_per_week.value)
    IN  IF brand_name.status = "raised" THEN Tried(brand_name, <<>>)
        ELSE IF weeks.status = "raised" THEN Tried(weeks, <<>>)
        ELSE IF posts_per_week.status = "raised" THEN Tried(posts_per_week, <<>>)
        ELSE IF forge_getattr("generate_content_calendar").status = "raised"
        THEN Tried(forge_getattr("generate_content_calendar"),
                   <<"generate_content_calendar">>)
        ELSE calendar_tried(generate_content_calendar(self_brands, brand,
                                weeks.value, 0, rng))

\* the except clause with the status code left out of the return
error_response_default_status(error) ==
    [status |-> 200, body |-> [success |-> FALSE, error |-> error.msg]]

\* except Exception as e: return jsonify({"success": False, "error": str(e)}), 500
error_response(error) ==
    [status |-> 500, body |-> [success |-> FALSE, error |-> error.msg]]

\* return jsonify({"success": True, ...})
success_response(payload) ==
    [status |-> 200,
     body |-> [k \in {"success"} \cup DOMAIN payload |->
                  IF k = "success" THEN TRUE ELSE payload[k]]]

respond(outcome) ==
    IF outcome.status = "raised" THEN error_response(outcome.error)
    ELSE success_response(outcome.value)

Routes ==
    { "POST /generate/carousel", "POST /generate/caption",
      "POST /generate/hashtags", "POST /generate/calendar" }

TopicFields == {Absent, PyStr("core workouts")}

IntFields == {Absent, PyInt(-1), PyInt(0), PyInt(2), PyStr("5"), PyStr("abc"), NoneType}

Bodies(route) ==
    {NoBody, JsonArray} \cup
    CASE route = "POST /generate/carousel" ->
            { JsonObject([topic |-> t, num_slides |-> n, template |-> k]) :
                t \in TopicFields, n \in IntFields, k \in {Absent, PyStr("steps")} }
      [] route = "POST /generate/caption" ->
            { JsonObject([topic |-> t, industry |-> i]) :
                t \in TopicFields, i \in {Absent, PyStr("fitness")} }
      [] route = "POST /generate/hashtags" ->
            { JsonObject([topic |-> t, num_sets |-> n]) :
                t \in TopicFields, n \in IntFields }
      [] route = "POST /generate/calendar" ->
            { JsonObject([brand_name |-> b, weeks |-> w, posts_per_week |-> f]) :
                b \in {Absent, PyStr("acme")}, w \in IntFields,
                f \in {Absent, PyInt(5), PyStr("abc")} }

\* forge = ContentForge(), and one request received
InitHttp ==
    /\ brands = [n \in {} |-> NoneType]
    /\ content_history = <<>>
    /\ catalog = Catalog
    /\ frames = NoFrames
    /\ \E route \in Routes :
          call \in {[op |-> route, body |-> b] : b \in Bodies(route)}
    /\ ret = Pending
    /\ responses = <<>>
    /\ forge_calls = <<>>

\* the handler leaves the try block by its return or by the except clause
Responded(tried) ==
    /\ ret' = tried.outcome
    /\ forge_calls' = tried.calls
    /\ responses' = Append(responses, respond(tried.outcome))

HandleCarousel ==
    /\ call.op = "POST /generate/carousel"
    /\ ret = Pending
    /\ \E json \in request_get_json(call.body), seed \in Seeds :
          Responded(carousel_try(brands, json, [seed |-> seed, k |-> 0]))
    /\ UNCHANGED <<brands, content_history, catalog, call, frames>>

HandleCaption ==
    /\ call.op = "POST /generate/caption"
    /\ ret = Pending
    /\ \E json \in request_get_json(call.body), seed \in Seeds :
          Responded(caption_try(brands, json, [seed |-> seed, k |-> 0]))
    /\ UNCHANGED <<brands, content_history, catalog, call, frames>>

HandleHashtags ==
    /\ call.op = "POST /generate/hashtags"
    /\ ret = Pending
    /\ \E json \in request_get_json(call.body), seed \in Seeds :
          Responded(hashtags_try(brands, json, [seed |-> seed, k |-> 0]))
    /\ UNCHANGED <<brands, content_history, catalog, call, frames>>

HandleCalendar ==
    /\ call.op = "POST /generate/calendar"
    /\ ret = Pending
    /\ \E json \in request_get_json(call.body), seed \in Seeds :
          Responded(calendar_try(brands, json, [seed |-> seed, k |-> 0]))
    /\ UNCHANGED <<brands, content_history, catalog, call, frames>>

NextHttp ==
    \/ HandleCarousel
    \/ HandleCaption
    \/ HandleHashtags
    \/ HandleCalendar

SpecHttp == InitHttp /\ [][NextHttp]_vars

(***************************************************************************)
(* The helpers called on their own: the arguments are drawn in the initial *)
(* state and the one action applies the helper to them.                    *)
(***************************************************************************)
DrawsFor(population, k) ==
    IF k > Len(population) \/ k < 0 THEN {<<>>}
    ELSE SampleDraws(Len(population), k)

InitHashtags ==
    /\ brands = [n \in {} |-> NoneType]
    /\ content_history = <<>>
    /\ catalog = Catalog
    /\ frames = NoFrames
    /\ call \in {[op |-> "_generate_hashtags", industry |-> i, topic |-> t] :
                    i \in IndustryKeys, t \in Topics}
    /\ ret = Pending
    /\ responses = <<>>
    /\ forge_calls = <<>>

CallGenerateHashtags ==
    /\ call.op = "_generate_hashtags"
    /\ ret = Pending
    /\ \E js1 \in DrawsFor(ListPrefix(industry_tags(call.industry), 5),
                           Min(3, Len(industry_tags(call.industry)))),
          js2 \in DrawsFor(ListPrefix(catalog.HASHTAGS["general"], 5), 2) :
            ret' = _generate_hashtags(call.industry, call.topic, js1, js2)
    /\ UNCHANGED <<brands, content_history, catalog, call, responses, forge_calls, frames>>

SpecHashtags == InitHashtags /\ [][CallGenerateHashtags]_vars

\* ContentForge.HASHTAGS[key] configured with only its first n tags
ShortBank(key, n) == [Catalog EXCEPT !.HASHTAGS[key] = ListPrefix(@, n)]

BankKeys == {"fitness", "general"}

BankTopics == {<<>>, <<"A", " ">>}

InitBanks ==
    /\ brands = [n \in {} |-> NoneType]
    /\ content_history = <<>>
    /\ catalog \in {ShortBank(key, n) : key \in BankKeys, n \in 0..MaxBank}
    /\ frames = NoFrames
    /\ call \in {[op |-> "_generate_hashtags", industry |-> i, topic |-> t] :
                    i \in BankKeys \cup {UnknownKey}, t \in BankTopics}
    /\ ret = Pending
    /\ responses = <<>>
    /\ forge_calls = <<>>

SpecBanks == InitBanks /\ [][CallGenerateHashtags]_vars

\* the hook length from which the short-hook bonus is lost
HookLimit == 60

HookLens == {0} \cup ((HookLimit - 2)..(HookLimit + 1))

HookTails == {<<>>, <<"U+1F4CC">>} \cup {<<c>> : c \in EMPHASIS}

ScoreHooks == {[i \in 1..n |-> "x"] \o tail : n \in HookLens, tail \in HookTails}

SlideList(n) == [i \in 1..n |-> [type |-> "text", number |-> i]]

TagList(n) == {<<"#", "tag", i>> : i \in 1..n}

InitScore ==
    /\ brands = [n \in {} |-> NoneType]
    /\ content_history = <<>>
    /\ catalog = Catalog
    /\ frames = NoFrames
    /\ call \in {[op |-> "_calculate_engagement_score", hook |-> h,
                  slides |-> SlideList(n), hashtags |-> TagList(t)] :
                    h \in ScoreHooks, n \in 0..(MaxSlides + 2), t \in 0..MaxTags}
    /\ ret = Pending
    /\ responses = <<>>
    /\ forge_calls = <<>>

CallCalculateEngagementScore ==
    /\ call.op = "_calculate_engagement_score"
    /\ ret = Pending
    /\ ret' = Return(_calculate_engagement_score(call.hook, call.slides, call.hashtags))
    /\ UNCHANGED <<brands, content_history, catalog, call, responses, forge_calls, frames>>

SpecScore == InitScore /\ [][CallCalculateEngagementScore]_vars

InitHook ==
    /\ brands = [n \in {} |-> NoneType]
    /\ content_history = <<>>
    /\ catalog = Catalog
    /\ frames = NoFrames
    /\ call \in {[op |-> "_generate_hook", industry |-> i, topic |-> t] :
                    i \in IndustryKeys, t \in Topics}
    /\ ret = Pending
    /\ responses = <<>>
    /\ forge_calls = <<>>

CallGenerateHook ==
    /\ call.op = "_generate_hook"
    /\ ret = Pending
    /\ \E d \in ChoiceDraws(industry_hooks(call.industry)) :
            ret' = Return(_generate_hook(call.industry, call.topic, d))
    /\ UNCHANGED <<brands, content_history, catalog, call, responses, forge_calls, frames>>

SpecHook == InitHook /\ [][CallGenerateHook]_vars

InitSlides ==
    /\ brands = [n \in {} |-> NoneType]
    /\ content_history = <<>>
    /\ catalog = Catalog
    /\ frames = NoFrames
    /\ call \in {[op |-> "_generate_slides", template_type |-> k, topic |-> t,
                  num_slides |-> n] :
                    k \in TemplateTypes, t \in Topics, n \in (-MaxNegSlides)..MaxSlides}
    /\ ret = Pending
    /\ responses = <<>>
    /\ forge_calls = <<>>

CallGenerateSlides ==
    /\ call.op = "_generate_slides"
    /\ ret = Pending
    /\ ret' = Return(_generate_slides(catalog.CAROUSEL_TEMPLATES[call.template_type],
                                      call.topic, call.num_slides, "friendly"))
    /\ UNCHANGED <<brands, content_history, catalog, call, responses, forge_calls, frames>>

SpecSlides == InitSlides /\ [][CallGenerateSlides]_vars

(***************************************************************************)
(* Requests served concurrently on the one ContentForge.  A call is cut    *)
(* where it reads or writes self.brands: create_brand builds its profile,  *)
(* then stores it; generate_content_calendar looks the brand up once, and  *)
(* each pass of its loop looks it up again inside generate_carousel.       *)
(* frames[r] holds the locals of the one call request r makes.             *)
(***************************************************************************)
Requests == {"r1", "r2", "r3"}

SharedNames == {"acme", "zen"}

CalendarDays == {3}

Idle == [pc |-> "idle"]

SharedSeeds == {0, 1}

SharedPillarLists == {PillarCycle(1), PillarCycle(2)}

InitThreads ==
    /\ brands = [n \in {} |-> NoneType]
    /\ content_history = <<>>
    /\ catalog = Catalog
    /\ call = [op |-> "none"]
    /\ ret = Pending
    /\ responses = <<>>
    /\ forge_calls = <<>>
    /\ frames = [r \in Requests |-> Idle]

\* create_brand up to the assignment to self.brands
BeginCreateBrand(r) ==
    /\ frames[r] = Idle
    /\ \E name \in SharedNames, a \in BrandArgs, pillars \in SharedPillarLists,
          seed \in SharedSeeds :
          frames' = [frames EXCEPT ![r] =
              [ op |-> "create_brand", pc |-> "store", name |-> name,
                args |-> a, content_pillars |-> pillars,
                brand |-> create_brand(name, a.industry, a.voice,
                              a.target_audience, pillars, 5,
                              [seed |-> seed, k |-> 0]),
                ret |-> Pending ]]
    /\ UNCHANGED <<brands, content_history, catalog, call, ret, responses, forge_calls>>

\* self.brands[name] = brand; return brand
StoreBrand(r) ==
    /\ frames[r].pc = "store"
    /\ brands' = brands_setitem(brands, frames[r].name, frames[r].brand)
    /\ frames' = [frames EXCEPT ![r].pc = "done",
                                ![r].ret = Return(frames[r].brand)]
    /\ UNCHANGED <<content_history, catalog, call, ret, responses, forge_calls>>

\* generate_content_calendar up to the loop
BeginCalendar(r) ==
    /\ frames[r] = Idle
    /\ \E name \in SharedNames, days \in CalendarDays, seed \in SharedSeeds :
          LET found == dict_get(brands, PyStr(name))
          IN  frames' = [frames EXCEPT ![r] =
                  IF Falsy(found.value)
                  THEN [ op |-> "generate_content_calendar", pc |-> "done",
                         name |-> name,
                         ret |-> Raise("ValueError",
                                       "Brand '" \o name \o "' not found") ]
                  ELSE [ op |-> "generate_content_calendar", pc |-> "loop",
                         name |-> name, brand |-> found.value, seed |-> seed,
                         i |-> 0,
                         n |-> calendar_range(days, found.value.content_pillars),
                         calendar |-> <<>>, ret |-> Pending ]]
    /\ UNCHANGED <<brands, content_history, catalog, call, ret, responses, forge_calls>>

\* one pass of the loop
CalendarDay(r) ==
    /\ frames[r].pc = "loop"
    /\ frames[r].i < frames[r].n
    /\ LET f == frames[r]
           entry == calendar_day(brands, f.brand, PyStr(f.name), f.i, 0,
                        [seed |-> f.seed, k |-> f.i * (CarouselDraws + 1)])
       IN  frames' = [frames EXCEPT ![r] =
               IF entry.status = "raised"
               THEN [f EXCEPT !.pc = "done", !.ret = entry]
               ELSE [f EXCEPT !.i = f.i + 1,
                              !.calendar = Append(f.calendar, entry.value)]]
    /\ UNCHANGED <<brands, content_history, catalog, call, ret, responses, forge_calls>>

\* return calendar
CalendarReturn(r) ==
    /\ frames[r].pc = "loop"
    /\ frames[r].i >= frames[r].n
    /\ frames' = [frames EXCEPT ![r].pc = "done",
                                ![r].ret = Return(frames[r].calendar)]
    /\ UNCHANGED <<brands, content_history, catalog, call, ret, responses, forge_calls>>

NextThreads ==
    \E r \in Requests :
        \/ BeginCreateBrand(r)
        \/ StoreBrand(r)
        \/ BeginCalendar(r)
        \/ CalendarDay(r)
        \/ CalendarReturn(r)

SpecThreads == InitThreads /\ [][NextThreads]_vars

(***************************************************************************)
(* Properties                                                              *)
(***************************************************************************)
\* C1: for every industry key, supported or not, and every topic, the list
\* returned by _generate_hashtags holds only strings whose first character
\* is '#', and holds at most 8 of them.
C1_HashtagsPrefixedAtMostEight ==
    (call.op = "_generate_hashtags" /\ ret.status = "returned") =>
        /\ \A tag \in ret.value : tag # <<>> /\ tag[1] = "#"
        /\ Cardinality(ret.value) <= 8

\* an unsupported industry key falls back to the general bank, both samples
\* drew a common tag, and the topic tags collapsed as well
C1_Witness ==
    /\ call.op = "_generate_hashtags"
    /\ call.industry = UnknownKey
    /\ ret.status = "returned"
    /\ Cardinality(ret.value) < 8
    /\ <<"#", "a">> \in ret.value

GenerationOps == {"generate_carousel", "generate_single_post", "generate_content_calendar"}

\* C2: the engagement_score of every ContentPiece produced by
\* generate_carousel and generate_single_post, and of every calendar entry,
\* is an integer from 0 to 100, also when the slide list is empty.
C2_ScoreInRange ==
    (call.op \in GenerationOps /\ ret.status = "returned") =>
        IF call.op = "generate_content_calendar"
        THEN \A i \in DOMAIN ret.value : ret.value[i].engagement_score \in 0..100
        ELSE ret.value.engagement_score \in 0..100

\* a carousel scored on an empty slide list
C2_Witness ==
    /\ call.op = "generate_carousel"
    /\ ret.status = "returned"
    /\ ret.value.slides = <<>>
    /\ ret.value.engagement_score >= 50

\* C5: for a registered brand with p content pillars and a requested number
\* of days d >= 0, generate_content_calendar returns exactly min(d, 2*p) entries.
C5_CalendarLength ==
    [][(/\ call'.op = "generate_content_calendar"
        /\ call'.brand_name.v \in DOMAIN brands
        /\ call'.days >= 0) =>
           /\ ret'.status = "returned"
           /\ Len(ret'.value) =
                 IF call'.days < 2 * Len(brands[call'.brand_name.v].content_pillars)
                 THEN call'.days
                 ELSE 2 * Len(brands[call'.brand_name.v].content_pillars)]_vars

\* more days requested than twice the pillars of the brand: the cap applies
C5_Witness ==
    /\ call.op = "generate_content_calendar"
    /\ ret.status = "returned"
    /\ call.brand_name.v \in DOMAIN brands
    /\ Len(brands[call.brand_name.v].content_pillars) >= 1
    /\ call.days > 2 * Len(brands[call.brand_name.v].content_pillars)
    /\ Len(ret.value) = 2 * Len(brands[call.brand_name.v].content_pillars)

NotFound(outcome) ==
    /\ outcome.status = "raised"
    /\ outcome.error.type = "ValueError"

\* C6: generate_carousel, generate_single_post and generate_content_calendar
\* called with a brand name absent from the brand mapping raise the not-found
\* ValueError, return no content and leave the mapping as it was; called
\* with a name that is present they do not raise it.
C6_AbsentBrandRaises ==
    [][call'.op \in GenerationOps =>
           /\ brands' = brands
           /\ (call'.brand_name.v \notin DOMAIN brands) <=> NotFound(ret')]_vars

\* a lookup of an unregistered name while another brand is registered
C6_Witness ==
    /\ call.op = "generate_content_calendar"
    /\ DOMAIN brands # {}
    /\ call.brand_name.v \notin DOMAIN brands
    /\ NotFound(ret)

\* C3: for every carousel template and every integer num_slides N, the list
\* returned by _generate_slides is no longer than min(N, len(structure)).
C3_SlidesAtMostRequested ==
    (call.op = "_generate_slides" /\ ret.status = "returned") =>
        Len(ret.value) <=
            Min(call.num_slides, Len(CAROUSEL_TEMPLATES[call.template_type].structure))

\* C4 as stated: the hook returned by _generate_hook holds no '{' and no '}',
\* for every industry key and every topic.
C4_HookHasNoBrace ==
    (call.op = "_generate_hook" /\ ret.status = "returned") =>
        ~Contains(ret.value, "{") /\ ~Contains(ret.value, "}")

\* C4 amended: the hook returned by _generate_hook holds a '{' only if the
\* topic holds one and a '}' only if the topic holds one; no brace of the
\* hook template survives, whether substitution succeeded or fell back.
C4_HookBracesComeFromTopic ==
    (call.op = "_generate_hook" /\ ret.status = "returned") =>
        \A b \in {"{", "}"} : Contains(ret.value, b) => Contains(call.topic, b)

\* the chosen template names a placeholder missing from the variables, so the
\* fallback stripped its braces, while the topic itself holds a brace
C4_Witness ==
    /\ call.op = "_generate_hook"
    /\ ret.status = "returned"
    /\ Contains(call.topic, "{")
    /\ \E d \in ChoiceDraws(industry_hooks(call.industry)) :
          LET t == random_choice(industry_hooks(call.industry), d)
          IN  /\ ~(Fields(t) \subseteq DOMAIN hook_variables(call.topic))
              /\ ret.value = SelectSeq(t, LAMBDA c : c \notin {"{", "}"})
Answered == call.op \in Routes /\ ret # Pending

HasField(key, value) ==
    /\ call.body.kind = "object"
    /\ key \in DOMAIN call.body.fields
    /\ call.body.fields[key] = value

\* an integer field of the request body is missing or holds an integer
IntFieldWellFormed(key) ==
    key \in DOMAIN call.body.fields => call.body.fields[key].cls = "int"

\* C7: in each of the four POST handlers an error raised while the request
\* is handled ends the request with exactly one response, of status 500 and
\* body {success: false, error: <the non-empty message>}; a response with
\* success true is sent only when the try block ran to its end, and no call
\* on the generator is made again after one failed.
C7_ErrorsAnswered500 ==
    Answered =>
        /\ Len(responses) = 1
        /\ ret.status = "raised" =>
              /\ responses[1].status = 500
              /\ responses[1].body = [success |-> FALSE, error |-> ret.error.msg]
              /\ ret.error.msg # ""
              /\ Len(forge_calls) <= 1
        /\ responses[1].body.success =>
              /\ ret.status = "returned"
              /\ responses[1].status = 200

\* POST /generate/carousel with num_slides "abc": int() raised ValueError
C7_Witness ==
    /\ Answered
    /\ call.op = "POST /generate/carousel"
    /\ HasField("num_slides", PyStr("abc"))
    /\ ret.status = "raised"
    /\ ret.error.type = "ValueError"
    /\ responses[1].status = 500

\* C8: POST /generate/caption without a body is answered with status 200 and
\* success true, a non-empty caption and a non-empty hashtag list.
C8_CaptionWithoutBodySucceeds ==
    (Answered /\ call.op = "POST /generate/caption" /\ call.body.kind = "none") =>
        /\ responses[1].status = 200
        /\ responses[1].body.success
        /\ responses[1].body.caption # <<>>
        /\ responses[1].body.hashtags # {}

\* C9: POST /generate/carousel with a well-formed JSON body is answered with
\* success true and a content record of the ten ContentPiece fields whose
\* content_type is "carousel".
C9_CarouselAnswersContent ==
    (/\ Answered
     /\ call.op = "POST /generate/carousel"
     /\ call.body.kind = "object"
     /\ IntFieldWellFormed("num_slides")) =>
        /\ responses[1].status = 200
        /\ responses[1].body.success
        /\ DOMAIN responses[1].body.content =
              { "content_type", "title", "slides", "caption", "hashtags", "hook",
                "cta", "engagement_score", "best_posting_time", "brand_voice" }
        /\ responses[1].body.content.content_type = "carousel"

\* C10: POST /generate/calendar with a well-formed JSON body is answered with
\* success true and a calendar that is a list of day records, although no
\* earlier request created the brand.
C10_CalendarAnswersDays ==
    (/\ Answered
     /\ call.op = "POST /generate/calendar"
     /\ call.body.kind = "object"
     /\ IntFieldWellFormed("weeks")
     /\ IntFieldWellFormed("posts_per_week")) =>
        /\ responses[1].status = 200
        /\ responses[1].body.success
        /\ \A i \in DOMAIN responses[1].body.calendar :
              DOMAIN responses[1].body.calendar[i] =
                  { "date", "day", "content_type", "title", "topic",
                    "engagement_score", "best_time", "caption_preview", "hashtags" }
Stores(r) == frames[r].pc = "store" /\ frames'[r].pc = "done"

Created(r) == frames[r].pc = "done" /\ frames[r].op = "create_brand"

\* C11: create_brand succeeds for every industry and voice string; when it
\* returns, the brand mapping maps the name to exactly the profile built
\* from the arguments of the call, and the entry of every other name is the
\* one it was.
C11_CreateBrandStoresProfile ==
    [][\A r \in Requests :
          /\ Stores(r) =>
                LET f == frames[r]
                    made == frames'[r].ret
                IN  /\ made.status = "returned"
                    /\ made.value.cls = "BrandProfile"
                    /\ made.value.name = f.name
                    /\ made.value.industry = f.args.industry
                    /\ made.value.voice = f.args.voice
                    /\ made.value.target_audience = f.args.target_audience
                    /\ made.value.content_pillars = f.content_pillars
                    /\ made.value.color_scheme \in Range(PALETTES)
                    /\ DOMAIN brands' = DOMAIN brands \cup {f.name}
                    /\ brands'[f.name] = made.value
                    /\ \A n \in DOMAIN brands \ {f.name} : brands'[n] = brands[n]
          /\ (frames[r].pc = "store" /\ frames'[r] # frames[r]) => Stores(r)]_vars

\* a profile with an industry no catalog knows replaced the earlier profile
\* of its name while another name was registered
C11_Witness ==
    \E r, q \in Requests :
        /\ Created(r) /\ Created(q)
        /\ r # q
        /\ frames[r].name = frames[q].name
        /\ frames[r].brand # frames[q].brand
        /\ frames[r].args.industry = UnknownKey
        /\ brands[frames[r].name] = frames[r].brand
        /\ DOMAIN brands = SharedNames

\* C12: when requests run create_brand concurrently, every change of the
\* brand mapping is the store of one call and puts that call's complete
\* profile under its name, leaving the other names alone; so each entry is,
\* at every moment, the whole profile of a finished call for that name, the
\* one that wrote last.
C12_LastWriteWins ==
    [][/\ brands' # brands =>
             \E r \in Requests :
                 /\ Stores(r)
                 /\ brands' = [n \in DOMAIN brands \cup {frames[r].name} |->
                                  IF n = frames[r].name THEN frames[r].brand
                                  ELSE brands[n]]
       /\ \A n \in DOMAIN brands' :
             \E r \in Requests :
                 /\ frames'[r].pc = "done"
                 /\ frames'[r].op = "create_brand"
                 /\ frames'[r].name = n
                 /\ frames'[r].brand = brands'[n]]_vars

\* two calls for one name with different profiles have both stored, the
\* third request has not started, and the mapping holds the second's profile
C12_Witness ==
    /\ Created("r1") /\ Created("r2")
    /\ frames["r3"] = Idle
    /\ frames["r1"].name = frames["r2"].name
    /\ frames["r1"].content_pillars # frames["r2"].content_pillars
    /\ frames["r1"].args # frames["r2"].args
    /\ DOMAIN brands = {frames["r1"].name}
    /\ brands[frames["r1"].name] = frames["r2"].brand

\* the calendar entry of day i agrees with profile p: the topic is p's pillar
\* of that day, the posting time is that of p's audience, and the three tags
\* sampled from an industry bank come from the bank of p's industry
EntryFrom(entry, i, p) ==
    /\ entry.topic = p.content_pillars[(i % Len(p.content_pillars)) + 1]
    /\ entry.best_time = _optimal_posting_time(p.target_audience)
    /\ Cardinality(entry.hashtags
                   \cap Range(ListPrefix(industry_tags(p.industry), 5))) >= 3

\* C18: all entries of the calendar returned by one generate_content_calendar
\* call agree with a single brand profile, also when create_brand of another
\* request replaced the profile of that name during the loop.
C18_CalendarFromOneProfile ==
    \A r \in Requests :
        (/\ frames[r].pc = "done"
         /\ frames[r].op = "generate_content_calendar"
         /\ frames[r].ret.status = "returned") =>
            \E a \in BrandArgs, pillars \in SharedPillarLists :
                \A d \in DOMAIN frames[r].ret.value :
                    EntryFrom(frames[r].ret.value[d], d - 1,
                              [ industry |-> a.industry,
                                target_audience |-> a.target_audience,
                                content_pillars |-> pillars ])
\* C13 as stated: _generate_hashtags fails with an error whenever the bank
\* selected for the industry holds fewer than 5 tags.
C13_ShortBankFails ==
    (/\ call.op = "_generate_hashtags"
     /\ ret # Pending
     /\ Len(industry_tags(call.industry)) < 5) =>
        ret.status = "raised"

\* C13 amended: whatever the size of the bank selected for the industry,
\* _generate_hashtags samples min(3, size) tags from its first five and
\* returns them in a list made of bank, topic and general tags; it fails,
\* with the ValueError of random.sample, exactly when the general bank holds
\* fewer than 2 tags.
C13_ShortBankSampled ==
    (call.op = "_generate_hashtags" /\ ret # Pending) =>
        LET bank == ListPrefix(industry_tags(call.industry), 5)
            general == ListPrefix(catalog.HASHTAGS["general"], 5)
        IN  IF Len(general) < 2
            THEN ret.status = "raised" /\ ret.error.type = "ValueError"
            ELSE /\ ret.status = "returned"
                 /\ Cardinality(ret.value \cap Range(bank))
                       >= Min(3, Len(industry_tags(call.industry)))
                 /\ ret.value \subseteq
                       Range(bank) \cup Range(general) \cup Range(topic_tags(call.topic))

\* a bank of two tags was selected and both tags are in the returned list
C13_Witness ==
    /\ call.op = "_generate_hashtags"
    /\ call.industry = "fitness"
    /\ Len(catalog.HASHTAGS["fitness"]) = 2
    /\ ret.status = "returned"
    /\ Range(catalog.HASHTAGS["fitness"]) \subseteq ret.value
\* C14: a lookup with a key the catalog lacks never raises.  A carousel for a
\* registered brand is always returned; with an industry that has no hook
\* list its hook is made from a "general" hook, with an industry that has no
\* hashtag bank its industry tags come from the "general" bank, with an
\* unknown template type its slides and title are those of the "tips"
\* template, and with an unmapped audience its posting time is the
\* "general" window.
C14_AbsentKeyFallsBack ==
    (call.op = "generate_carousel" /\ call.brand_name.v \in DOMAIN brands) =>
        LET brand == brands[call.brand_name.v]
            tips == CAROUSEL_TEMPLATES["tips"]
        IN  /\ ret.status = "returned"
            /\ brand.industry \notin DOMAIN HOOKS =>
                  \E d \in ChoiceDraws(HOOKS["general"]) :
                      ret.value.hook = _generate_hook("general", call.topic, d)
            /\ brand.industry \notin DOMAIN HASHTAGS =>
                  ret.value.hashtags \subseteq
                      Range(ListPrefix(HASHTAGS["general"], 5))
                          \cup Range(topic_tags(call.topic))
            /\ call.template_type \notin DOMAIN CAROUSEL_TEMPLATES =>
                  /\ ret.value.slides =
                        _generate_slides(tips, call.topic, call.num_slides, brand.voice)
                  /\ \E d \in ChoiceDraws(tips.titles), dn \in ChoiceDraws(NUMBERS) :
                        ret.value.title =
                            _fill_template(random_choice(tips.titles, d), call.topic, dn)
            /\ brand.target_audience \notin DOMAIN times =>
                  ret.value.best_posting_time = times["general"]

\* all four lookups of one carousel missed their key
C14_Witness ==
    /\ call.op = "generate_carousel"
    /\ call.brand_name.v \in DOMAIN brands
    /\ call.template_type = UnknownKey
    /\ call.num_slides = 7
    /\ brands[call.brand_name.v].industry = UnknownKey
    /\ brands[call.brand_name.v].target_audience \notin DOMAIN times
    /\ ret.status = "returned"
    /\ Len(ret.value.slides) = 7
Bonus(condition, points) == IF condition THEN points ELSE 0

\* C15: the engagement score is a function of the hook, the number of slides
\* and the number of hashtags: 50, plus 10 if the hook holds an emphasis
\* character, plus 5 if the hook is shorter than 60 characters, plus 15 for
\* 5 to 10 slides, plus 10 for 8 to 15 hashtags, kept within 0..100.
C15_ScoreIsSumOfBonuses ==
    (call.op = "_calculate_engagement_score" /\ ret.status = "returned") =>
        LET sum == 50
                + Bonus(\E i \in DOMAIN call.hook :
                            call.hook[i] \in {"U+1F525", "U+1F4A1", "U+1F631", "U+1F447"}, 10)
                + Bonus(StrLen(call.hook) < 60, 5)
                + Bonus(Len(call.slides) \in 5..10, 15)
                + Bonus(Cardinality(call.hashtags) \in 8..15, 10)
        IN  ret.value = (IF sum > 100 THEN 100 ELSE IF sum < 0 THEN 0 ELSE sum)

\* a hook of 60 characters that ends in an emphasis character, with the most
\* slides and hashtags that still earn their bonus: 50 + 10 + 15 + 10
C15_Witness ==
    /\ call.op = "_calculate_engagement_score"
    /\ StrLen(call.hook) = 60
    /\ Contains(call.hook, "U+1F447")
    /\ Len(call.slides) = 10
    /\ Cardinality(call.hashtags) = 15
    /\ ret = Return(85)
\* the titles a carousel of the given template type can get for a topic
TitlesOf(template_type, topic) ==
    { _fill_template(random_choice(CAROUSEL_TEMPLATES[template_type].titles, d),
                     topic, dn) :
        d \in ChoiceDraws(CAROUSEL_TEMPLATES[template_type].titles),
        dn \in ChoiceDraws(NUMBERS) }

C17_GenerationLeavesStateAlone ==
    [][/\ call'.op \in GenerationOps =>
             /\ catalog' = catalog
             /\ catalog' = [ HOOKS |-> HOOKS, CAROUSEL_TEMPLATES |-> CAROUSEL_TEMPLATES,
                             CTAS |-> CTAS, HASHTAGS |-> HASHTAGS ]
             /\ brands' = brands
             /\ content_history' = content_history
       /\ brands' # brands => call'.op = "create_brand"]_vars

\* a carousel was returned for a registered brand and nothing was recorded
C17_Witness ==
    /\ call.op = "generate_carousel"
    /\ ret.status = "returned"
    /\ DOMAIN brands # {}
    /\ content_history = <<>>
    /\ catalog.HASHTAGS = HASHTAGS

\* C19: every slot of the four built-in templates has a record in the slide
\* table, so for a requested count N >= 0 _generate_slides returns exactly
\* min(N, length of the structure) slides, the record of each slot in the
\* order of the structure; with the calendar's count of 7 the tips, mistakes
\* and steps templates give exactly 7 slides.
C19_EverySlotHasSlide ==
    (/\ call.op = "_generate_slides"
     /\ ret.status = "returned"
     /\ call.num_slides >= 0) =>
        LET structure == CAROUSEL_TEMPLATES[call.template_type].structure
            kept == IF call.num_slides < Len(structure)
                    THEN call.num_slides ELSE Len(structure)
        IN  /\ \A i \in DOMAIN structure :
                  structure[i] \in DOMAIN slide_content(call.topic)
            /\ Len(ret.value) = kept
            /\ \A i \in 1..kept :
                  ret.value[i] = slide_content(call.topic)[structure[i]]
            /\ (call.num_slides = 7 /\ call.template_type \in {"tips", "mistakes", "steps"})
                  => Len(ret.value) = 7

\* more slides requested than the steps template has slots: all eight
\* slots, the result slide among them, are returned
C19_Witness ==
    /\ call.op = "_generate_slides"
    /\ call.template_type = "steps"
    /\ call.num_slides > 8
    /\ ret.status = "returned"
    /\ Len(ret.value) = 8
    /\ ret.value[7].type = "result"
====
